---- MODULE Spec2Model ----
(***************************************************************************)
(* Model of good_news_agent.py: run() polls Google News RSS for every      *)
(* (topic, query, language) of CONFIG, keeps the items whose sentiment     *)
(* score reaches CONFIG["min_compound"], stops at CONFIG["max_articles"],  *)
(* de-duplicates the collected list, renders it, writes it to disk and     *)
(* mails it.                                                               *)
(*                                                                         *)
(* Scores are in hundredths (0.05 is 5).  The network, the translator, the *)
(* sentiment analyser, the disk and the SMTP server are the environment:   *)
(* what they return is chosen nondeterministically.                        *)
(***************************************************************************)
EXTENDS Integers, Sequences, FiniteSets, TLC

(* ------------------------------ bounds -------------------------------- *)

\* CONFIG["max_articles"] ranges over 1..MaxCap.
MaxCap == 3

\* The feeds of one run hold at most MaxItems items altogether.
MaxItems == 3

\* dedupe_articles is called directly on lists of at most MaxListLen articles.
MaxListLen == 2

(* ------------------------------ CONFIG -------------------------------- *)

\* CONFIG["min_compound"], 0.05.
min_compound == 5

\* CONFIG["summary_max_chars"].
summary_max_chars == 300

\* Two shapes of CONFIG["queries"] (the topics in declaration order, each a
\* list of queries) and CONFIG["languages"]: one query in two languages, and
\* a nest in which every loop of run() has a next element to go to.
PairConfig == [queries |-> << <<"q1">> >>, languages |-> <<"en", "es">>]

NestedConfig == [queries |-> << <<"q1", "q2">>, <<"q3">> >>, languages |-> <<"en", "es">>]

(* ------------------------------ values -------------------------------- *)

\* Python's None, for a key a dict lacks or holds as None.
None == "<None>"

\* The items a feed can hold: title, raw description, link, and the compound
\* score VADER gives the item's English text.  An item with neither title nor
\* description text is never scored; its text is blank and scores 0.
ItLow == [title |-> "t", description |-> "<p>d</p>", link |-> "u", score |-> -20]

ItA == [title |-> "b", description |-> "<p>d</p>", link |-> "a", score |-> 30]

ItA2 == [title |-> "", description |-> "<p>d</p>", link |-> "ab", score |-> 5]

ItB == [title |-> "c", description |-> "", link |-> "a", score |-> 60]

ItBlank == [title |-> "", description |-> "<p> </p>", link |-> "e", score |-> 0]

Items == {ItLow, ItA, ItA2, ItB, ItBlank}

RECURSIVE SeqsUpTo(_, _)
SeqsUpTo(S, n) ==
    IF n = 0 THEN {<<>>}
    ELSE LET shorter == SeqsUpTo(S, n - 1)
         IN  shorter \cup {Append(s, x) : s \in {t \in shorter : Len(t) = n - 1}, x \in S}

\* What one fetch can meet: the request or the parse fails, or a feed arrives.
Failed == [ok |-> FALSE, feed |-> <<>>]

FetchOutcomes == {Failed} \cup {[ok |-> TRUE, feed |-> f] : f \in SeqsUpTo(Items, MaxItems)}

\* The outcomes used with NestedConfig: a failure, no item, one item, two items.
NestedOutcomes == {Failed} \cup {[ok |-> TRUE, feed |-> f] : f \in {<<>>, <<ItA>>, <<ItA, ItB>>}}

\* The (topic, query, language) index triples of a configuration.
Positions(cfg) ==
    UNION {{[t |-> t, q |-> q, l |-> l] :
              q \in 1..Len(cfg.queries[t]), l \in 1..Len(cfg.languages)} :
           t \in 1..Len(cfg.queries)}

RECURSIVE SumLen(_, _)
SumLen(f, S) ==
    IF S = {} THEN 0
    ELSE LET p == CHOOSE x \in S : TRUE
         IN  Len(f[p].feed) + SumLen(f, S \ {p})

\* The feed universes of a run: what every source would return if fetched.
Universes(cfg, outcomes) ==
    {f \in [Positions(cfg) -> outcomes] : SumLen(f, Positions(cfg)) <= MaxItems}

NoDoc == [kind |-> "none"]

NoFile == [kind |-> "absent"]

\* A file opened for writing whose write did not complete.
Truncated == [kind |-> "truncated"]

NoCall == [articles |-> <<>>, out |-> <<>>, returned |-> FALSE]

(* ------------------------------- state -------------------------------- *)

VARIABLES
    CONFIG,         \* CONFIG: queries, languages, max_articles
    feeds,          \* the environment: what each source returns when fetched
    creds,          \* EMAIL_USER and EMAIL_PASSWORD and EMAIL_TO are all set
    pc,             \* where run() is
    pos,            \* the (topic, query, language) indices of the three outer loops
    items,          \* the list fetch_google_news_rss returned for the current source
    idx,            \* index in items of the next item of the inner loop
    collected,      \* run()'s accumulating list
    html,           \* the document build_html_digest returned
    digestFile,     \* good_news_digest.html
    errorFile,      \* good_news_digest_error.html
    fetched,        \* history: the sources fetched so far, in order
    scored,         \* history: number of score_sentiment calls
    translated,     \* history: number of translate_to_en_safe / translate_text calls
    slept,          \* history: number of time.sleep(0.3) pauses
    accepted,       \* history: number of collected.append calls
    final,          \* history: the list handed to build_html_digest
    built,          \* history: build_html_digest has been called
    mail,           \* history: every send_email call, with the document and the result
    raisedAt,       \* history: the step whose exception reached the except clause
    call            \* a direct call of dedupe_articles: its argument and result

vars == <<CONFIG, feeds, creds, pc, pos, items, idx, collected, html, digestFile,
          errorFile, fetched, scored, translated, slept, accepted, final, built,
          mail, raisedAt, call>>

(* ------------------------------ helpers ------------------------------- *)

\* clean_html_summary: tags stripped, whitespace collapsed and trimmed.
clean_html_summary(html_text) ==
    IF html_text = None \/ html_text = "" THEN ""
    ELSE CASE html_text = "<p>d</p>" -> "d"
           [] html_text = "<p> </p>" -> ""
           [] OTHER -> html_text

\* s[:n]
Prefix(s, n) == IF Len(s) <= n THEN s ELSE SubSeq(s, 1, n)

\* x or ""
OrEmpty(x) == IF x = None THEN "" ELSE x

\* hashlib_sha1: the hex digest, taken to be collision-free.
hashlib_sha1(s) == <<"sha1", s>>

\* Mutant of DedupKey: the key is the hash of the link alone.
DedupKey_LinkOnly(a) == hashlib_sha1(OrEmpty(a.link))

\* The key dedupe_articles computes for an article.
DedupKey(a) == hashlib_sha1(OrEmpty(a.link) \o OrEmpty(a.title))

RECURSIVE DedupeLoop(_, _, _)
DedupeLoop(articles, seen, out) ==
    IF articles = <<>> THEN out
    ELSE LET a == Head(articles)
             key == DedupKey(a)
         IN  IF key \in seen
             THEN DedupeLoop(Tail(articles), seen, out)
             ELSE DedupeLoop(Tail(articles), seen \cup {key}, Append(out, a))

RECURSIVE Reverse(_)
Reverse(s) == IF s = <<>> THEN <<>> ELSE Append(Reverse(Tail(s)), Head(s))

\* Mutant of dedupe_articles: of several items with one key the last is kept.
dedupe_articles_KeepLast(articles) == Reverse(DedupeLoop(Reverse(articles), {}, <<>>))

dedupe_articles(articles) == DedupeLoop(articles, {}, <<>>)

\* build_html_digest: the placeholder paragraph for an empty list, else one
\* <article> per entry, in list order, and the count in the aside.
build_html_digest(articles) ==
    [kind |-> "digest", placeholder |-> (articles = <<>>),
     articles |-> articles, count |-> Len(articles)]

ErrorDoc == [kind |-> "error"]

\* score_sentiment(translate_to_en_safe(text)) for the item's text.
score_sentiment(it) == it.score

\* Mutant of BelowThreshold: a score equal to the threshold is rejected too.
BelowThreshold_Strict(score) == score <= min_compound

\* if score < CONFIG["min_compound"]: continue
BelowThreshold(score) == score < min_compound

\* The four "if len(collected) >= CONFIG['max_articles']: break" of run().
\* Mutant of BreakItem: the item loop stops one item late.
BreakItem_Late(c) == Len(c) > CONFIG.max_articles

BreakItem(c) == Len(c) >= CONFIG.max_articles

BreakLang(c) == Len(c) >= CONFIG.max_articles

\* Mutant of BreakQuery: the query loop has no break.
BreakQuery_Missing(c) == FALSE

BreakQuery(c) == Len(c) >= CONFIG.max_articles

BreakTopic(c) == Len(c) >= CONFIG.max_articles

\* The position past the last topic: the outer loop is over.
EndPos == [t |-> Len(CONFIG.queries) + 1, q |-> 1, l |-> 1]

\* What a call gives when it raises instead of returning.
Raised == "<raised>"

\* Mutant of fetch_google_news_rss: no try/except, a failure raises.
fetch_google_news_rss_Unguarded(p) == IF feeds[p].ok THEN feeds[p].feed ELSE Raised

\* fetch_google_news_rss(q, lang): the items parsed; its try/except turns any
\* failure of the request or of the parse into [].
fetch_google_news_rss(p) == IF feeds[p].ok THEN feeds[p].feed ELSE <<>>

LeaveQueryLoop(c) ==
    IF BreakTopic(c) THEN EndPos
    ELSE IF pos.t < Len(CONFIG.queries) THEN [t |-> pos.t + 1, q |-> 1, l |-> 1]
    ELSE EndPos

LeaveLangLoop(c) ==
    IF BreakQuery(c) THEN LeaveQueryLoop(c)
    ELSE IF pos.q < Len(CONFIG.queries[pos.t]) THEN [t |-> pos.t, q |-> pos.q + 1, l |-> 1]
    ELSE LeaveQueryLoop(c)

\* Where the loops stand once the inner "for it in items" is left with c collected.
LeaveItemLoop(c) ==
    IF BreakLang(c) THEN LeaveLangLoop(c)
    ELSE IF pos.l < Len(CONFIG.languages) THEN [pos EXCEPT !.l = @ + 1]
    ELSE LeaveLangLoop(c)

PcAt(p) == IF p = EndPos THEN "dedupe" ELSE "fetch"

(* ------------------------------- Init --------------------------------- *)

\* The state run() starts in, under configuration cfg with cap n and universe f.
Start(cfg, n, f) ==
    /\ CONFIG = [queries |-> cfg.queries, languages |-> cfg.languages, max_articles |-> n]
    /\ feeds = f
    /\ creds \in BOOLEAN
    /\ pc = "fetch"
    /\ pos = [t |-> 1, q |-> 1, l |-> 1]
    /\ items = <<>>
    /\ idx = 1
    /\ collected = <<>>
    /\ html = NoDoc
    /\ digestFile = NoFile
    /\ errorFile = NoFile
    /\ fetched = <<>>
    /\ scored = 0
    /\ translated = 0
    /\ slept = 0
    /\ accepted = 0
    /\ final = <<>>
    /\ built = FALSE
    /\ mail = <<>>
    /\ raisedAt = "none"
    /\ call = NoCall

Init ==
    \E n \in 1..MaxCap :
       \/ \E f \in Universes(PairConfig, FetchOutcomes) : Start(PairConfig, n, f)
       \/ \E f \in Universes(NestedConfig, NestedOutcomes) : Start(NestedConfig, n, f)

(* ------------------------------ actions ------------------------------- *)

\* items = fetch_google_news_rss(q, lang).  An empty list pauses, runs the item
\* loop zero times and moves on; an exception out of the call would reach the
\* except clause of run().
FetchStep ==
    /\ pc = "fetch"
    /\ LET got == fetch_google_news_rss(pos)
       IN  /\ fetched' = Append(fetched, pos)
           /\ IF got = Raised
              THEN /\ raisedAt' = "fetch"
                   /\ pc' = "handler"
                   /\ UNCHANGED <<items, idx, slept, pos>>
              ELSE /\ raisedAt' = raisedAt
                   /\ items' = got
                   /\ idx' = 1
                   /\ IF got = <<>>
                      THEN /\ slept' = slept + 1
                           /\ pos' = LeaveItemLoop(collected)
                           /\ pc' = PcAt(pos')
                      ELSE /\ slept' = slept
                           /\ pos' = pos
                           /\ pc' = "items"
    /\ UNCHANGED <<CONFIG, feeds, creds, collected, html, digestFile, errorFile,
                   scored, translated, accepted, final, built, mail, call>>

\* One iteration of "for it in items": an item without title and description
\* text is skipped, one scoring below the threshold is dropped, any other is
\* appended, and a full list breaks out of the loops.  The entry's pubDate and
\* its Hebrew title and summary decide nothing and are left out; the translator
\* calls that produce them are counted.
ItemStep ==
    /\ pc = "items"
    /\ LET it == items[idx]
           title == it.title
           desc == clean_html_summary(it.description)
           score == score_sentiment(it)
           short_desc == Prefix(desc, summary_max_chars)
           skip == title = "" /\ desc = ""
           low == ~skip /\ BelowThreshold(score)
           keep == ~skip /\ ~low
           c == IF keep
                THEN Append(collected, [title |-> title, description |-> desc,
                                        summary |-> short_desc, link |-> it.link,
                                        score |-> score])
                ELSE collected
           leave == (keep /\ BreakItem(c)) \/ idx = Len(items)
       IN  /\ collected' = c
           /\ accepted' = IF keep THEN accepted + 1 ELSE accepted
           /\ scored' = IF skip THEN scored ELSE scored + 1
           /\ translated' = IF skip THEN translated
                            ELSE IF low THEN translated + 1
                            ELSE IF short_desc = "" THEN translated + 2
                            ELSE translated + 3
           /\ IF leave
              THEN /\ pos' = LeaveItemLoop(c)
                   /\ pc' = PcAt(pos')
                   /\ idx' = idx
              ELSE /\ pos' = pos
                   /\ pc' = "items"
                   /\ idx' = idx + 1
    /\ UNCHANGED <<CONFIG, feeds, creds, items, html, digestFile, errorFile, fetched,
                   slept, final, built, mail, raisedAt, call>>

\* collected = dedupe_articles(collected)
Dedupe ==
    /\ pc = "dedupe"
    /\ collected' = dedupe_articles(collected)
    /\ pc' = "build"
    /\ UNCHANGED <<CONFIG, feeds, creds, pos, items, idx, html, digestFile, errorFile,
                   fetched, scored, translated, slept, accepted, final, built, mail,
                   raisedAt, call>>

\* html = build_html_digest(collected)
Build ==
    /\ pc = "build"
    /\ html' = build_html_digest(collected)
    /\ final' = collected
    /\ built' = TRUE
    /\ pc' = "write"
    /\ UNCHANGED <<CONFIG, feeds, creds, pos, items, idx, collected, digestFile,
                   errorFile, fetched, scored, translated, slept, accepted, mail,
                   raisedAt, call>>

\* with open("good_news_digest.html", "w") as f: f.write(html)
Write ==
    /\ pc = "write"
    /\ digestFile' = html
    /\ pc' = "send"
    /\ UNCHANGED <<CONFIG, feeds, creds, pos, items, idx, collected, html, errorFile,
                   fetched, scored, translated, slept, accepted, final, built, mail,
                   raisedAt, call>>

\* Mutant of send_email: no try/except, a failure of the SMTP exchange raises.
send_email_Unguarded(doc) ==
    IF ~creds THEN {"skipped"} ELSE {"sent", Raised}

\* send_email: the results a call can have.  Without credentials it returns
\* False at once; with them the message is sent, or the SMTP exchange fails and
\* the except clause inside send_email returns False.
send_email(doc) ==
    IF ~creds THEN {"skipped"} ELSE {"sent", "failed"}

\* send_email(html), the last statement of the try block.
Send ==
    /\ pc = "send"
    /\ \E res \in send_email(html) :
         /\ mail' = Append(mail, [doc |-> html, result |-> res])
         /\ IF res = Raised
            THEN raisedAt' = "send" /\ pc' = "handler"
            ELSE raisedAt' = raisedAt /\ pc' = "done"
    /\ UNCHANGED <<CONFIG, feeds, creds, pos, items, idx, collected, html, digestFile,
                   errorFile, fetched, scored, translated, slept, accepted, final,
                   built, call>>

\* An exception raised by a statement of the try block reaches "except Exception".
\* A write that fails may leave the digest file truncated.
Unexpected ==
    /\ pc \in {"items", "dedupe", "build", "write"}
    /\ raisedAt' = pc
    /\ pc' = "handler"
    /\ digestFile' \in IF pc = "write" THEN {digestFile, Truncated} ELSE {digestFile}
    /\ UNCHANGED <<CONFIG, feeds, creds, pos, items, idx, collected, html, errorFile,
                   fetched, scored, translated, slept, accepted, final, built, mail,
                   call>>

\* The except clause: the error document is written, then mailed when the
\* credentials are set, an exception of that send_email being swallowed.  The
\* write itself is not guarded: if it fails, the exception leaves run().
Handler ==
    /\ pc = "handler"
    /\ \/ /\ errorFile' = ErrorDoc
          /\ IF creds
             THEN \E res \in send_email(ErrorDoc) :
                     mail' = Append(mail, [doc |-> ErrorDoc, result |-> res])
             ELSE mail' = mail
          /\ pc' = "done"
       \/ /\ errorFile' \in {errorFile, Truncated}
          /\ mail' = mail
          /\ pc' = "raised"
    /\ UNCHANGED <<CONFIG, feeds, creds, pos, items, idx, collected, html, digestFile,
                   fetched, scored, translated, slept, accepted, final, built,
                   raisedAt, call>>

\* A direct call dedupe_articles(articles).
CallDedupe ==
    /\ pc = "off"
    /\ ~call.returned
    /\ call' = [call EXCEPT !.out = dedupe_articles(call.articles), !.returned = TRUE]
    /\ UNCHANGED <<CONFIG, feeds, creds, pc, pos, items, idx, collected, html,
                   digestFile, errorFile, fetched, scored, translated, slept,
                   accepted, final, built, mail, raisedAt>>

Next ==
    \/ FetchStep
    \/ ItemStep
    \/ Dedupe
    \/ Build
    \/ Write
    \/ Send
    \/ Unexpected
    \/ Handler

Spec == Init /\ [][Next]_vars

\* The articles dedupe_articles is called on directly: link and title each
\* missing, empty or a short string.
Articles == {[link |-> l, title |-> t] : l \in {None, "", "a", "ab"}, t \in {None, "", "b"}}

InitDedupe ==
    /\ CONFIG = [queries |-> PairConfig.queries, languages |-> PairConfig.languages,
                 max_articles |-> 1]
    /\ feeds = [p \in Positions(PairConfig) |-> Failed]
    /\ creds = FALSE
    /\ pc = "off"
    /\ pos = [t |-> 1, q |-> 1, l |-> 1]
    /\ items = <<>>
    /\ idx = 1
    /\ collected = <<>>
    /\ html = NoDoc
    /\ digestFile = NoFile
    /\ errorFile = NoFile
    /\ fetched = <<>>
    /\ scored = 0
    /\ translated = 0
    /\ slept = 0
    /\ accepted = 0
    /\ final = <<>>
    /\ built = FALSE
    /\ mail = <<>>
    /\ raisedAt = "none"
    /\ \E a \in SeqsUpTo(Articles, MaxListLen) :
          call = [articles |-> a, out |-> <<>>, returned |-> FALSE]

NextDedupe == CallDedupe

SpecDedupe == InitDedupe /\ [][NextDedupe]_vars

(* ------------------- the run against its feed universe ----------------- *)

\* The source after p in configuration order: languages within a query,
\* queries within a topic, topics in declaration order.
Succ(p) ==
    IF p.l < Len(CONFIG.languages) THEN [p EXCEPT !.l = @ + 1]
    ELSE IF p.q < Len(CONFIG.queries[p.t]) THEN [t |-> p.t, q |-> p.q + 1, l |-> 1]
    ELSE [t |-> p.t + 1, q |-> 1, l |-> 1]

FirstPos == [t |-> 1, q |-> 1, l |-> 1]

RECURSIVE SourcesFrom(_)
SourcesFrom(p) == IF p.t > Len(CONFIG.queries) THEN <<>> ELSE <<p>> \o SourcesFrom(Succ(p))

\* Every configured source, in enumeration order.
AllSources == SourcesFrom(FirstPos)

\* What source p yields: its feed, or nothing when its fetch fails.
Yield(p) == IF feeds[p].ok THEN feeds[p].feed ELSE <<>>

RECURSIVE ItemsFrom(_)
ItemsFrom(p) == IF p.t > Len(CONFIG.queries) THEN <<>> ELSE Yield(p) \o ItemsFrom(Succ(p))

\* An item passes the sentiment threshold.
Passes(it) == it.score >= min_compound

\* The passing items of the whole universe, in enumeration order.
PassingAll == SelectSeq(ItemsFrom(FirstPos), Passes)

Min(a, b) == IF a <= b THEN a ELSE b

\* The passing items the cap lets in: the first max_articles of them.
Taken == SubSeq(PassingAll, 1, Min(CONFIG.max_articles, Len(PassingAll)))

\* An item or a collected entry, as its link, title and score.
Proj(s) == [i \in 1..Len(s) |-> <<s[i].link, s[i].title, s[i].score>>]

IsPrefix(s, t) == Len(s) <= Len(t) /\ s = SubSeq(t, 1, Len(s))

\* The link + title concatenation the dedup key is the hash of.
Concat(a) == OrEmpty(a.link) \o OrEmpty(a.title)

DistinctConcats(s) == Cardinality({Concat(s[i]) : i \in 1..Len(s)})

\* s restricted to the indices in K, in order.
RECURSIVE Restrict(_, _, _)
Restrict(s, K, i) ==
    IF i > Len(s) THEN <<>>
    ELSE (IF i \in K THEN <<s[i]>> ELSE <<>>) \o Restrict(s, K, i + 1)

\* Some source not fetched would have yielded an item.
UnfetchedYield ==
    \E i \in 1..Len(AllSources) :
        /\ \A j \in 1..Len(fetched) : fetched[j] # AllSources[i]
        /\ Yield(AllSources[i]) # <<>>

(* ------------------------------- claims -------------------------------- *)

\* C1: cap enforcement.  When the universe holds more than max_articles passing
\* items, among them at least max_articles different stories, the list handed
\* to build_html_digest has exactly max_articles items.
C1_ExactlyN ==
    (built /\ Len(PassingAll) > CONFIG.max_articles
           /\ DistinctConcats(PassingAll) >= CONFIG.max_articles)
        => Len(final) = CONFIG.max_articles

\* C9: duplicates are rejected at acceptance time: the collected list never
\* holds two items with the same dedup key.
C9_NoDuplicateInCollected ==
    \A i, j \in 1..Len(collected) :
        i < j => DedupKey(collected[i]) # DedupKey(collected[j])

C4_ShortCircuit ==
    [][accepted >= CONFIG.max_articles
         => /\ fetched' = fetched
            /\ scored' = scored
            /\ translated' = translated
            /\ accepted' = accepted]_vars

\* C4 witness: the run is over, the cap was reached inside a feed that had a
\* further item, and sources that would have yielded items were never fetched.
C4_Witness ==
    /\ pc = "done"
    /\ accepted = CONFIG.max_articles
    /\ idx < Len(items)
    /\ UnfetchedYield
    /\ Len(fetched) + 2 <= Len(AllSources)

\* The (link, title) pair of an item; a missing value differs from an empty one.
Pair(a) == <<a.link, a.title>>

\* C2 as stated: of the passing items let in that share a (link, title) pair,
\* exactly the first is in the list handed to build_html_digest, which keeps
\* the enumeration order.
C2_FirstWinsByPair ==
    built =>
      \E K \in SUBSET (1..Len(Taken)) :
         /\ Proj(final) = Proj(Restrict(Taken, K, 1))
         /\ \A i \in 1..Len(Taken) :
              LET first == \A k \in 1..(i - 1) : Pair(Taken[k]) # Pair(Taken[i])
                  again == \E j \in (i + 1)..Len(Taken) : Pair(Taken[j]) = Pair(Taken[i])
              IN  /\ ~first => i \notin K
                  /\ (first /\ again) => i \in K

\* C2, amended: of the passing items let in that share a link + title
\* concatenation, exactly the first is in the list handed to
\* build_html_digest, which keeps the enumeration order.
C2_FirstWinsByConcat ==
    built =>
      \E K \in SUBSET (1..Len(Taken)) :
         /\ Proj(final) = Proj(Restrict(Taken, K, 1))
         /\ \A i \in 1..Len(Taken) :
              LET first == \A k \in 1..(i - 1) : Concat(Taken[k]) # Concat(Taken[i])
                  again == \E j \in (i + 1)..Len(Taken) : Concat(Taken[j]) = Concat(Taken[i])
              IN  /\ ~first => i \notin K
                  /\ (first /\ again) => i \in K

\* C2 witness: the same item passed first and third, from different sources,
\* with another item between them; the final list holds the first two.
C2_Witness ==
    /\ built
    /\ Len(Taken) = 3
    /\ Pair(Taken[1]) = Pair(Taken[3])
    /\ Pair(Taken[1]) # Pair(Taken[2])
    /\ Len(Yield(FirstPos)) < 3
    /\ Proj(final) = Proj(SubSeq(Taken, 1, 2))

\* C3: the threshold is a gate and nothing is reordered.  While collecting, the
\* collected list is a prefix of the universe's passing items in enumeration
\* order; and when those are fewer than max_articles and no two are duplicates
\* of each other, the list handed to build_html_digest is exactly them.
C3_ThresholdGate ==
    /\ pc \in {"fetch", "items", "dedupe"} => IsPrefix(Proj(collected), Proj(PassingAll))
    /\ (built /\ Len(PassingAll) < CONFIG.max_articles
              /\ DistinctConcats(PassingAll) = Len(PassingAll))
          => Proj(final) = Proj(PassingAll)

\* C3 witness: one source returns scores -0.2, 0.3, 0.6, the others nothing;
\* the digest gets the two items scored 0.3 and 0.6, in that order.
C3_Witness ==
    /\ built
    /\ Yield(FirstPos) = <<ItLow, ItA, ItB>>
    /\ CONFIG.max_articles = 3
    /\ Proj(final) = Proj(<<ItA, ItB>>)

\* No source yields an item: every fetch fails or returns an empty feed.
NothingYields == \A p \in Positions(CONFIG) : Yield(p) = <<>>

\* C6: a fetch that fails contributes no item and raises nothing into run();
\* sources are attempted once each in configuration order; and when no source
\* yields an item, a run that meets no other exception has attempted them all,
\* has written the placeholder digest and has called send_email with it, which
\* attempts delivery exactly when the credentials are set.
C6_FailSoftFetch ==
    /\ raisedAt # "fetch"
    /\ IsPrefix(fetched, AllSources)
    /\ pc = "items" => (feeds[pos].ok /\ items = feeds[pos].feed)
    /\ pc \notin {"done", "raised", "off"} => ENABLED Next
    /\ NothingYields => (pc # "items" /\ collected = <<>> /\ scored = 0)
    /\ (NothingYields /\ built)
          => (fetched = AllSources /\ final = <<>> /\ html.placeholder)
    /\ (NothingYields /\ pc = "done" /\ raisedAt = "none")
          => /\ digestFile = build_html_digest(<<>>)
             /\ Len(mail) = 1
             /\ mail[1].doc = digestFile
             /\ mail[1].result \in (IF creds THEN {"sent", "failed"} ELSE {"skipped"})

\* C6 witness: in the nested configuration the first fetch fails, another
\* returns an empty feed, none yields an item, and the placeholder digest is sent.
C6_Witness ==
    /\ pc = "done"
    /\ raisedAt = "none"
    /\ NothingYields
    /\ Len(AllSources) > 2
    /\ ~feeds[FirstPos].ok
    /\ \E p \in Positions(CONFIG) : feeds[p].ok
    /\ mail = <<[doc |-> build_html_digest(<<>>), result |-> "sent"]>>

\* C7: send_email is called with the digest only once the digest file holds it;
\* and whatever that call does (skipped without credentials, sent, failed), the
\* run ends normally with the except clause not entered, no error file written
\* and the digest file as it was.
C7_DeliveryIsolated ==
    /\ pc = "send" => (digestFile = html /\ html = build_html_digest(final)
                       /\ raisedAt = "none")
    /\ \A i \in 1..Len(mail) :
          mail[i].doc.kind = "digest"
             => /\ pc = "done"
                /\ raisedAt = "none"
                /\ errorFile = NoFile
                /\ digestFile = mail[i].doc
                /\ mail[i].result \in (IF creds THEN {"sent", "failed"} ELSE {"skipped"})

\* C7 witness: a digest with an article was written, its delivery failed, and
\* the run is over.
C7_Witness ==
    /\ pc = "done"
    /\ final # <<>>
    /\ mail = <<[doc |-> build_html_digest(final), result |-> "failed"]>>
    /\ digestFile = build_html_digest(final)

\* C8: run() never raises; after an exception of the try block the error file
\* is written and, with credentials, the error document is handed to send_email.
C8_TopLevelContainment ==
    /\ pc # "raised"
    /\ (pc = "done" /\ raisedAt # "none")
          => /\ errorFile = ErrorDoc
             /\ creds => \E i \in 1..Len(mail) : mail[i].doc = ErrorDoc

\* C10 as stated: an article whose (link, title) pair differs from that of
\* every earlier article of the list is in the result.
C10_RetainedUnlessSamePair ==
    call.returned =>
      \A j \in 1..Len(call.articles) :
         (\A i \in 1..(j - 1) : Pair(call.articles[i]) # Pair(call.articles[j]))
            => \E k \in 1..Len(call.out) : call.out[k] = call.articles[j]

\* C10, amended: the result is the list without the articles whose link + title
\* concatenation (a missing value counting as empty) is that of an earlier
\* article; every other article is retained, in order.
C10_RetainedUnlessSameConcat ==
    call.returned =>
      call.out = Restrict(call.articles,
                          {j \in 1..Len(call.articles) :
                             \A i \in 1..(j - 1) :
                                Concat(call.articles[i]) # Concat(call.articles[j])},
                          1)

\* C10 witness: two articles with the same link, one without a title, are both
\* retained.
C10_Witness ==
    /\ call.returned
    /\ Len(call.articles) = 2
    /\ call.articles[1].link = call.articles[2].link
    /\ call.articles[1].title = None
    /\ call.articles[2].title = "b"
    /\ call.out = call.articles

====
